---- MODULE Spec2Model ----
(***************************************************************************)
(* State-machine model of the cache-coherent feed service:                 *)
(*   cache.ts   getCachedFeed / cacheFeed / invalidateCache / isCacheValid *)
(*   routes.ts  handleFeedRequest / handleAddItem / handleUpdateConfig     *)
(*   storage.ts getItems / addItem / saveFeedConfig                        *)
(*   config.ts  setFeedConfig / getFeedConfig                              *)
(* Every store command (one await on the redis client) is one atomic step; *)
(* the synchronous code that follows a command's reply runs in the step of *)
(* the next command it issues.  Variables whose names start with "h" are   *)
(* history variables: they record what happened and steer nothing.         *)
(***************************************************************************)
EXTENDS Integers, Sequences, FiniteSets, TLC

\* ------------------------------------------------------------------ bounds
NumReaders == 3
NumWriters == 3
MaxClock == 1
MaxFail == 2
MaxReuse == 1
FixedMaxItems == 2
NumInstances == 2
MaxOver == 2
MaxWindow == 1
MaxRestart == 2

Readers == 1..NumReaders
Writers == (NumReaders + 1)..(NumReaders + NumWriters)
Procs == Readers \cup Writers
NoProc == NumReaders + NumWriters + 1
\* The connection that carries the mutation where one mutation is enough.
OneWriter == {NumReaders + 1}

\* ------------------------------------------------------------ program data
FormatSeq == <<"rss", "atom", "json", "raw">>
Formats == {FormatSeq[i] : i \in 1..Len(FormatSeq)}

CACHE_PREFIX == "feed:cache:"
CACHE_METADATA_PREFIX == "feed:cache:metadata:"
CacheKey(f) == <<CACHE_PREFIX, f>>
MetadataKey(f) == <<CACHE_METADATA_PREFIX, f>>
CacheKeys == {CacheKey(f) : f \in Formats} \cup {MetadataKey(f) : f \in Formats}

RATE_LIMIT_MAX == 100
DEFAULT_FEED_ID == "main"
DEFAULT_MAX_ITEMS == 100
\* A number is held as its integer part and its fractional part in halves:
\* maxItems + maxItemsHalf / 2, with maxItemsHalf 0 for an integer.
DEFAULT_CONFIG == [id |-> DEFAULT_FEED_ID, title |-> "Default RSS Feed",
                   maxItems |-> DEFAULT_MAX_ITEMS, maxItemsHalf |-> 0]

\* Request bodies of PUT /api/config: maxItems is the number n + h/2, written
\* <<"num", n, h>>, or not a number.
ConfigInputs ==
  {[id |-> "", title |-> "", maxItems |-> <<"undefined">>],
   [id |-> "other", title |-> "News", maxItems |-> <<"num", 1, 0>>]}
ConfigBodies == {<<"bad json">>} \cup {<<"json", c>> : c \in ConfigInputs}
\* Request bodies of POST /api/items, by what the validation makes of them.
AddBodies == {"bad json", "no content", "no link", "ok"}

\* typeof v === "number" and v > 0, on the values a JSON body can hold.
IsNumber(v) == v[1] = "num"
Positive(v) == v[2] > 0 \/ (v[2] = 0 /\ v[3] > 0)

\* setFeedConfig's defaulting: the configuration it stores for an input.
setFeedConfig(config) ==
  [id |-> DEFAULT_FEED_ID,
   title |-> IF config.title = "" THEN DEFAULT_CONFIG.title ELSE config.title,
   maxItems |-> IF IsNumber(config.maxItems) /\ Positive(config.maxItems)
                  THEN config.maxItems[2] ELSE DEFAULT_CONFIG.maxItems,
   maxItemsHalf |-> IF IsNumber(config.maxItems) /\ Positive(config.maxItems)
                      THEN config.maxItems[3] ELSE DEFAULT_CONFIG.maxItemsHalf]
CACHE_CONTROL == "public, max-age=600"

\* Values are tagged tuples, so that any two of them can be compared.
Nil == <<"nil">>
Null == <<"null">>
EmptyStr == <<"str", "">>
Garbage == <<"str", "not a date">>
NaN == -1

\* timestamp.toString(36) wrapped in double quotes: one string per timestamp.
Etag(t) == <<"etag", t>>
\* Date.prototype.toISOString of the instant t.
ToISOString(t) == <<"date", t>>
\* new Date(s).getTime(): the instant of a date string, NaN for anything else.
ParseDate(s) == IF s[1] = "date" THEN s[2] ELSE NaN
\* JS truthiness of a header value / stored string: null and "" are falsy.
Truthy(s) == s # Null /\ s # Nil /\ s # EmptyStr

\* A parse that reads the two fields from each other's place.
JSONParseSwapped(s) == [lastModified |-> s[3], etag |-> s[2]]

\* A serialisation that writes the two fields in each other's place.
JSONStringifySwapped(m) == <<"json", m.etag, m.lastModified>>

\* JSON.stringify / JSON.parse of a CacheMetadata object.
JSONStringify(m) == <<"json", m.lastModified, m.etag>>
JSONParse(s) == [lastModified |-> s[2], etag |-> s[3]]
\* A metadata record that ignores the time it is built at.
NewMetadataEpoch(t) == [lastModified |-> ToISOString(0), etag |-> Etag(0)]
NewMetadata(t) == [lastModified |-> ToISOString(t), etag |-> Etag(t)]
NoMetadata == [lastModified |-> Nil, etag |-> Nil]

\* generateFeed(items, format).content: a pure function of its arguments.
Render(items, f) == <<"feed", f, items>>

getContentType(f) ==
  CASE f = "atom" -> "application/atom+xml; charset=utf-8"
    [] f \in {"json", "raw"} -> "application/json; charset=utf-8"
    [] OTHER -> "application/rss+xml; charset=utf-8"

\* The formats feed requests ask for.
RequestFormats == {"rss", "raw"}

\* The request headers a feed request may carry: <<If-None-Match, If-Modified-Since>>.
HeaderChoices == {<<Null, Null>>, <<Etag(0), Null>>, <<Null, ToISOString(0)>>}

\* isCacheValid with the date comparison made strict.
isCacheValidStrict(h, metadata) ==
  LET ifNoneMatch == h[1]
      ifModifiedSince == h[2]
  IN  IF Truthy(ifNoneMatch) /\ ifNoneMatch = metadata.etag THEN TRUE
      ELSE IF Truthy(ifModifiedSince)
        THEN /\ ParseDate(ifModifiedSince) # NaN
             /\ ParseDate(metadata.lastModified) # NaN
             /\ ParseDate(metadata.lastModified) < ParseDate(ifModifiedSince)
        ELSE FALSE

\* isCacheValid without its If-None-Match test.
isCacheValidDateOnly(h, metadata) ==
  LET ifModifiedSince == h[2]
  IN  IF Truthy(ifModifiedSince)
        THEN /\ ParseDate(ifModifiedSince) # NaN
             /\ ParseDate(metadata.lastModified) # NaN
             /\ ParseDate(metadata.lastModified) <= ParseDate(ifModifiedSince)
        ELSE FALSE

isCacheValid(h, metadata) ==
  LET ifNoneMatch == h[1]
      ifModifiedSince == h[2]
  IN  IF Truthy(ifNoneMatch) /\ ifNoneMatch = metadata.etag THEN TRUE
      ELSE IF Truthy(ifModifiedSince)
        THEN /\ ParseDate(ifModifiedSince) # NaN
             /\ ParseDate(metadata.lastModified) # NaN
             /\ ParseDate(metadata.lastModified) <= ParseDate(ifModifiedSince)
        ELSE FALSE

\* ------------------------------------------------------------------- state
VARIABLES
  redis,          \* cache keys of the backing store: key -> value or Nil
  ttl,            \* key -> 0 (no expiry) or the rank of its EXPIRE call
  armSeq,         \* number of EXPIRE calls that set an expiry so far
  itemsList,      \* the list feed:main:items, newest first
  feedRecord,     \* the value of feed:main
  currentConfig,  \* config.ts currentConfig: <<>> (null) or <<config>>
  clock,          \* Date.now()
  failures,       \* store commands and renderings that have failed so far
  pc,             \* each request's position
  loc,            \* each request's local variables
  resp,           \* each request's response
  reused,         \* connections that have carried a second request so far
  pf,             \* isCacheValid taken alone: its arguments and its result
  hBy,            \* key -> the request whose cacheFeed wrote its value
  hist,           \* global history: flags, every item pushed, restarts so far
  rl,             \* the rate limiter: the counter key, each instance's memCache
  req             \* each request's position in the protection middleware

vars == <<redis, ttl, armSeq, itemsList, feedRecord, currentConfig, clock,
          failures, pc, loc, resp, reused, pf, hBy, hist, rl, req>>

NoResp == [status |-> 0, body |-> Nil, etag |-> Nil, lastModified |-> Nil,
           cacheControl |-> "", contentType |-> "", error |-> "", message |-> "",
           config |-> <<>>]

\* What a connection remembers of the request it carried before: whether
\* that request stored a rendering, and what cacheFeed wrote and returned.
NoPrev == [stored |-> FALSE, fmt |-> "", content |-> Nil, metadata |-> NoMetadata,
           seen |-> {}]

NoLoc == [kind |-> "", fmt |-> "", hit |-> FALSE, content |-> Nil,
          metadata |-> NoMetadata, headers |-> <<Null, Null>>, valid |-> FALSE,
          cfg |-> DEFAULT_CONFIG, items |-> <<>>, idx |-> 1, deleted |-> {},
          other |-> {}, body |-> "",
          hContentBy |-> NoProc, hMetadataBy |-> NoProc, hPaired |-> FALSE,
          hAfterInv |-> FALSE, hSeen |-> {}, hInvInFlight |-> FALSE,
          hQuiet |-> FALSE, hPrev |-> NoPrev, hReadFailed |-> FALSE]

NoCall == [h |-> <<Null, Null>>, m |-> NoMetadata, done |-> FALSE, out |-> FALSE]

\* The service instances that share the store, one request at a time on each.
Instances == 1..NumInstances

\* No counter key, no memCache entry (count 0 stands for an absent key or
\* entry); 'served' and 'passed' count the GET requests begun and passed on
\* to the downstream handler since the key was created.
NoLimit == [count |-> 0, armed |-> FALSE, mem |-> [i \in Instances |-> 0],
            served |-> 0, passed |-> 0, windows |-> 0]

NoReq == [pc |-> "idle", method |-> "", requests |-> 0, failed |-> FALSE,
          nexts |-> 0, status |-> 0, timer |-> "none"]

getFeedConfig == IF currentConfig = <<>> THEN DEFAULT_CONFIG ELSE currentConfig[1]

Init ==
  /\ redis = [k \in CacheKeys |-> Nil]
  /\ ttl = [k \in CacheKeys |-> 0]
  /\ armSeq = 0
  /\ itemsList = <<>>
  /\ feedRecord = [exists |-> TRUE, feedConfig |-> DEFAULT_CONFIG, other |-> {}]
  /\ currentConfig = <<>>
  /\ clock = 0
  /\ failures = 0
  /\ pc = [p \in Procs |-> "idle"]
  /\ loc = [p \in Procs |-> NoLoc]
  /\ resp = [p \in Procs |-> NoResp]
  /\ reused = 0
  /\ pf = NoCall
  /\ hBy = [k \in CacheKeys |-> NoProc]
  /\ hist = [invCompleted |-> FALSE, cfSinceInv |-> FALSE, ttlFired |-> FALSE,
             pushed |-> <<>>, restarts |-> 0]
  /\ rl = NoLimit
  /\ req = [i \in Instances |-> NoReq]


\* ------------------------------------------------------- store commands
Min(a, b) == IF a < b THEN a ELSE b

\* redis.set(k, v): stores v and clears any expiry the key had.
Set(k, v) == [redis EXCEPT ![k] = v]
SetTtl(k) == [ttl EXCEPT ![k] = 0]
\* redis.del(k)
Del(k) == [redis EXCEPT ![k] = Nil]
\* redis.expire(k, ttl): arms the expiry of an existing key; all keys get the
\* same ttl, so deadlines are ordered as the EXPIRE calls are.
Expire(k) == IF redis[k] = Nil THEN ttl ELSE [ttl EXCEPT ![k] = armSeq + 1]
ExpireSeq(k) == IF redis[k] = Nil THEN armSeq ELSE armSeq + 1
\* redis.lrange(key, 0, stop)
Lrange(list, stop) == SubSeq(list, 1, Min(Len(list), stop + 1))

CanFail == failures < MaxFail

\* ------------------------------------------------------------ responses
Resp304(m) ==
  [NoResp EXCEPT !.status = 304, !.etag = m.etag,
                 !.lastModified = m.lastModified, !.cacheControl = CACHE_CONTROL]
Resp200(f, content, m) ==
  [NoResp EXCEPT !.status = 200, !.body = content, !.etag = m.etag,
                 !.lastModified = m.lastModified, !.cacheControl = CACHE_CONTROL,
                 !.contentType = getContentType(f)]
\* The 'message' field that goes with each 'error' field (without the
\* interpolated error text).
ErrorMessage(error) ==
  CASE error = "Invalid JSON" -> "The request body must be valid JSON"
    [] error = "Missing required field: content or description" ->
         "Either content or description field is required for RSS items"
    [] error = "Missing required field: link" ->
         "The link field is required for RSS items"
    [] error = "Storage Error" -> "Failed to store the item. Please try again later."
    [] error = "Configuration Error" -> "Failed to update feed configuration"
    [] OTHER -> "Failed to generate feed"
RespError(status, error) ==
  [NoResp EXCEPT !.status = status, !.error = error,
                 !.message = ErrorMessage(error),
                 !.contentType = "application/json"]

\* ---------------------------------------------- handleFeedRequest(format)
\* The hit branch without its conditional check: always the full body.
HitResponseFull(f, content, metadata, valid) == Resp200(f, content, metadata)

\* The hit branch answering every hit as not modified.
HitResponseBare(f, content, metadata, valid) == Resp304(metadata)

\* The handler's answer on a cache hit (routes.ts 75-97).
HitResponse(f, content, metadata, valid) ==
  IF valid THEN Resp304(metadata) ELSE Resp200(f, content, metadata)

\* The writers whose item-add has been answered with success.
AddsAnswered == {w \in Writers : loc[w].kind = "add" /\ resp[w].status = 200}
InvInFlight == \E w \in Writers : pc[w] = "inv"

\* getCachedFeed: redis.get(cacheKey).  A miss falls through to getItems(),
\* whose synchronous part reads the configuration.
GetCachedContent(p, f) ==
  /\ p \in Readers /\ pc[p] = "idle"
  /\ LET v == redis[CacheKey(f)]
         l == [loc[p] EXCEPT !.kind = "feed", !.fmt = f,
                 !.hAfterInv = hist.invCompleted /\ ~hist.cfSinceInv,
                 !.hSeen = AddsAnswered,
                 !.hQuiet = \A q \in Readers \ {p} : pc[q] = "done"]
     IN  IF Truthy(v)
           THEN /\ pc' = [pc EXCEPT ![p] = "gcf_meta"]
                /\ loc' = [loc EXCEPT ![p] =
                     [l EXCEPT !.content = v, !.hContentBy = hBy[CacheKey(f)],
                        !.hPaired = /\ redis[MetadataKey(f)] # Nil
                                    /\ hBy[MetadataKey(f)] = hBy[CacheKey(f)]]]
           ELSE /\ pc' = [pc EXCEPT ![p] = "getItems"]
                /\ loc' = [loc EXCEPT ![p] = [l EXCEPT !.cfg = getFeedConfig]]
  /\ UNCHANGED <<redis, ttl, armSeq, itemsList, feedRecord, currentConfig, clock,
                 failures, resp, hBy, hist, reused, pf, rl, req>>

\* getCachedFeed: redis.get(metadataKey), then the handler's hit branch.
GetCachedMetadata(p) ==
  /\ pc[p] = "gcf_meta"
  /\ \E h \in HeaderChoices :
       LET f == loc[p].fmt
           metadataStr == redis[MetadataKey(f)]
           metadata == IF ~Truthy(metadataStr) THEN NewMetadata(clock)
                       ELSE JSONParse(metadataStr)
           valid == isCacheValid(h, metadata)
       IN  /\ loc' = [loc EXCEPT ![p] =
                 [@ EXCEPT !.hit = TRUE, !.metadata = metadata, !.headers = h,
                           !.valid = valid, !.hInvInFlight = InvInFlight,
                           !.hMetadataBy = hBy[MetadataKey(f)]]]
           /\ resp' = [resp EXCEPT ![p] =
                 HitResponse(f, loc[p].content, metadata, valid)]
  /\ pc' = [pc EXCEPT ![p] = "done"]
  /\ UNCHANGED <<redis, ttl, armSeq, itemsList, feedRecord, currentConfig, clock,
                 failures, hBy, hist, reused, pf, rl, req>>

\* getCachedFeed's catch: a failed read is a miss.
GetCachedFeedFails(p, f) ==
  /\ CanFail
  /\ \/ p \in Readers /\ pc[p] = "idle"
     \/ pc[p] = "gcf_meta" /\ f = loc[p].fmt
  /\ failures' = failures + 1
  /\ pc' = [pc EXCEPT ![p] = "getItems"]
  /\ loc' = [loc EXCEPT ![p] =
       [@ EXCEPT !.kind = "feed", !.fmt = f, !.cfg = getFeedConfig,
                 !.content = Nil, !.hContentBy = NoProc, !.hPaired = FALSE,
                 !.hReadFailed = TRUE,
                 !.hAfterInv = IF pc[p] = "idle"
                                 THEN hist.invCompleted /\ ~hist.cfSinceInv ELSE @,
                 !.hSeen = IF pc[p] = "idle" THEN AddsAnswered ELSE @]]
  /\ UNCHANGED <<redis, ttl, armSeq, itemsList, feedRecord, currentConfig, clock,
                 resp, hBy, hist, reused, pf, rl, req>>

\* A single-flight miss path: a request renders only when no other request
\* is writing the same format to the cache.
GetItemsSingleFlight(p) ==
  /\ pc[p] = "getItems"
  /\ \A q \in Readers \ {p} :
       ~(pc[q] \in {"cf_set_content", "cf_expire_content", "cf_set_metadata",
                    "cf_expire_metadata"} /\ loc[q].fmt = loc[p].fmt)
  /\ LET f == loc[p].fmt
         items == Lrange(itemsList, loc[p].cfg.maxItems - 1)
     IN  loc' = [loc EXCEPT ![p] =
           [@ EXCEPT !.items = items, !.content = Render(items, f),
                     !.metadata = NewMetadata(clock)]]
  /\ hist' = [hist EXCEPT !.cfSinceInv = TRUE]
  /\ pc' = [pc EXCEPT ![p] = "cf_set_content"]
  /\ UNCHANGED <<redis, ttl, armSeq, itemsList, feedRecord, currentConfig, clock,
                 failures, resp, hBy, reused, pf, rl, req>>

\* getItems(): redis.lrange; then generateFeed and the synchronous head of
\* cacheFeed, which reads the clock.
GetItems(p) ==
  /\ pc[p] = "getItems"
  /\ LET f == loc[p].fmt
         items == Lrange(itemsList, loc[p].cfg.maxItems - 1)
     IN  loc' = [loc EXCEPT ![p] =
           [@ EXCEPT !.items = items, !.content = Render(items, f),
                     !.metadata = NewMetadata(clock)]]
  /\ hist' = [hist EXCEPT !.cfSinceInv = TRUE]
  /\ pc' = [pc EXCEPT ![p] = "cf_set_content"]
  /\ UNCHANGED <<redis, ttl, armSeq, itemsList, feedRecord, currentConfig, clock,
                 failures, resp, hBy, reused, pf, rl, req>>

\* A getItems that takes a failed read for an empty list.
GetItemsFailsEmpty(p) ==
  /\ CanFail /\ pc[p] = "getItems"
  /\ failures' = failures + 1
  /\ loc' = [loc EXCEPT ![p] =
       [@ EXCEPT !.items = <<>>, !.content = Render(<<>>, loc[p].fmt),
                 !.metadata = NewMetadata(clock)]]
  /\ pc' = [pc EXCEPT ![p] = "cf_set_content"]
  /\ UNCHANGED <<redis, ttl, armSeq, itemsList, feedRecord, currentConfig, clock,
                 resp, hBy, hist, reused, pf, rl, req>>

\* getItems(): redis.lrange throws; the handler's catch answers 500.
GetItemsFails(p) ==
  /\ CanFail /\ pc[p] = "getItems"
  /\ failures' = failures + 1
  /\ resp' = [resp EXCEPT ![p] = RespError(500, "Feed Generation Error")]
  /\ pc' = [pc EXCEPT ![p] = "done"]
  /\ UNCHANGED <<redis, ttl, armSeq, itemsList, feedRecord, currentConfig, clock,
                 loc, hBy, hist, reused, pf, rl, req>>

\* getItems() returns and generateFeed throws; the handler's catch answers 500.
RenderFails(p) ==
  /\ CanFail /\ pc[p] = "getItems"
  /\ failures' = failures + 1
  /\ loc' = [loc EXCEPT ![p] =
       [@ EXCEPT !.items = Lrange(itemsList, loc[p].cfg.maxItems - 1)]]
  /\ resp' = [resp EXCEPT ![p] = RespError(500, "Feed Generation Error")]
  /\ pc' = [pc EXCEPT ![p] = "done"]
  /\ UNCHANGED <<redis, ttl, armSeq, itemsList, feedRecord, currentConfig, clock,
                 hBy, hist, reused, pf, rl, req>>

\* cacheFeed: await redis.set(cacheKey, content)
CacheFeedSetContent(p) ==
  /\ pc[p] = "cf_set_content"
  /\ LET k == CacheKey(loc[p].fmt)
     IN  /\ redis' = Set(k, loc[p].content)
         /\ ttl' = SetTtl(k)
         /\ hBy' = [hBy EXCEPT ![k] = p]
  /\ pc' = [pc EXCEPT ![p] = "cf_expire_content"]
  /\ UNCHANGED <<armSeq, itemsList, feedRecord, currentConfig, clock, failures,
                 loc, resp, hist, reused, pf, rl, req>>

\* cacheFeed: await redis.expire(cacheKey, ttl)
CacheFeedExpireContent(p) ==
  /\ pc[p] = "cf_expire_content"
  /\ LET k == CacheKey(loc[p].fmt)
     IN  ttl' = Expire(k) /\ armSeq' = ExpireSeq(k)
  /\ pc' = [pc EXCEPT ![p] = "cf_set_metadata"]
  /\ UNCHANGED <<redis, itemsList, feedRecord, currentConfig, clock, failures,
                 loc, resp, hBy, hist, reused, pf, rl, req>>

\* cacheFeed: await redis.set(metadataKey, JSON.stringify(metadata))
CacheFeedSetMetadata(p) ==
  /\ pc[p] = "cf_set_metadata"
  /\ LET k == MetadataKey(loc[p].fmt)
     IN  /\ redis' = Set(k, JSONStringify(loc[p].metadata))
         /\ ttl' = SetTtl(k)
         /\ hBy' = [hBy EXCEPT ![k] = p]
  /\ pc' = [pc EXCEPT ![p] = "cf_expire_metadata"]
  /\ UNCHANGED <<armSeq, itemsList, feedRecord, currentConfig, clock, failures,
                 loc, resp, hist, reused, pf, rl, req>>

\* cacheFeed: await redis.expire(metadataKey, ttl); the handler then answers
\* with the fresh content and the metadata cacheFeed returned.
CacheFeedExpireMetadata(p) ==
  /\ pc[p] = "cf_expire_metadata"
  /\ LET k == MetadataKey(loc[p].fmt)
     IN  ttl' = Expire(k) /\ armSeq' = ExpireSeq(k)
  /\ resp' = [resp EXCEPT ![p] =
       Resp200(loc[p].fmt, loc[p].content, loc[p].metadata)]
  /\ pc' = [pc EXCEPT ![p] = "done"]
  /\ UNCHANGED <<redis, itemsList, feedRecord, currentConfig, clock, failures,
                 loc, hBy, hist, reused, pf, rl, req>>

CacheFeedPcs == {"cf_set_content", "cf_expire_content", "cf_set_metadata",
                 "cf_expire_metadata"}

\* cacheFeed's catch rethrows; the handler's catch answers 500.
CacheFeedFails(p) ==
  /\ CanFail /\ pc[p] \in CacheFeedPcs
  /\ failures' = failures + 1
  /\ resp' = [resp EXCEPT ![p] = RespError(500, "Feed Generation Error")]
  /\ pc' = [pc EXCEPT ![p] = "cf_failed"]
  /\ UNCHANGED <<redis, ttl, armSeq, itemsList, feedRecord, currentConfig, clock,
                 loc, hBy, hist, reused, pf, rl, req>>

\* ----------------------------------------------------------- environment
\* Time passes.
Tick ==
  /\ clock < MaxClock
  /\ clock' = clock + 1
  /\ UNCHANGED <<redis, ttl, armSeq, itemsList, feedRecord, currentConfig,
                 failures, pc, loc, resp, hBy, hist, reused, pf, rl, req>>

\* The store drops the key whose expiry is due first.
TTLExpire(k) ==
  /\ ttl[k] > 0
  /\ \A k2 \in CacheKeys : ttl[k2] > 0 => ttl[k] <= ttl[k2]
  /\ redis' = Del(k)
  /\ ttl' = [ttl EXCEPT ![k] = 0]
  /\ hBy' = [hBy EXCEPT ![k] = NoProc]
  /\ hist' = [hist EXCEPT !.ttlFired = TRUE]
  /\ UNCHANGED <<armSeq, itemsList, feedRecord, currentConfig, clock, failures,
                 pc, loc, resp, reused, pf, rl, req>>

\* ------------------------------------------------------ invalidateCache()
\* The keys invalidateCache deletes, in the order of its loop.
InvalidateKeySeq ==
  [i \in 1..(2 * Len(FormatSeq)) |->
     IF i % 2 = 1 THEN CacheKey(FormatSeq[(i + 1) \div 2])
     ELSE MetadataKey(FormatSeq[i \div 2])]

\* The loop of invalidateCache ended one key early.
AfterDelShort(idx) == IF idx = Len(InvalidateKeySeq) - 1 THEN "respond" ELSE "inv"

\* Where a mutation handler goes after the delete at position idx.
AfterDel(idx) == IF idx = Len(InvalidateKeySeq) THEN "respond" ELSE "inv"

\* An invalidateCache that flushes the item list along with the cache keys.
InvalidateDelFlushesItems(p) ==
  /\ pc[p] = "inv"
  /\ LET k == InvalidateKeySeq[loc[p].idx]
         done == AfterDel(loc[p].idx) = "respond"
     IN  /\ redis' = Del(k)
         /\ ttl' = [ttl EXCEPT ![k] = 0]
         /\ hBy' = [hBy EXCEPT ![k] = NoProc]
         /\ loc' = [loc EXCEPT ![p] =
              [@ EXCEPT !.idx = @ + 1, !.deleted = @ \cup {k}]]
         /\ pc' = [pc EXCEPT ![p] = AfterDel(loc[p].idx)]
         /\ hist' = IF done
                      THEN [hist EXCEPT !.invCompleted = TRUE, !.cfSinceInv = FALSE]
                      ELSE hist
  /\ itemsList' = <<>>
  /\ UNCHANGED <<armSeq, feedRecord, currentConfig, clock, failures,
                 resp, reused, pf, rl, req>>

\* invalidateCache: await redis.del(key), one key per step.
InvalidateDel(p) ==
  /\ pc[p] = "inv"
  /\ LET k == InvalidateKeySeq[loc[p].idx]
         done == AfterDel(loc[p].idx) = "respond"
     IN  /\ redis' = Del(k)
         /\ ttl' = [ttl EXCEPT ![k] = 0]
         /\ hBy' = [hBy EXCEPT ![k] = NoProc]
         /\ loc' = [loc EXCEPT ![p] =
              [@ EXCEPT !.idx = @ + 1, !.deleted = @ \cup {k}]]
         /\ pc' = [pc EXCEPT ![p] = AfterDel(loc[p].idx)]
         /\ hist' = IF done
                      THEN [hist EXCEPT !.invCompleted = TRUE, !.cfSinceInv = FALSE]
                      ELSE hist
  /\ UNCHANGED <<armSeq, itemsList, feedRecord, currentConfig, clock, failures,
                 resp, reused, pf, rl, req>>

\* The name of the 500 a mutation handler's catch answers with.
MutationError(kind) == IF kind = "add" THEN "Storage Error" ELSE "Configuration Error"

\* An invalidateCache whose catch only logs: the handler goes on to answer.
InvalidateFailsLogged(p) ==
  /\ CanFail /\ pc[p] = "inv"
  /\ failures' = failures + 1
  /\ pc' = [pc EXCEPT ![p] = "respond"]
  /\ UNCHANGED <<redis, ttl, armSeq, itemsList, feedRecord, currentConfig, clock,
                 loc, resp, hBy, hist, reused, pf, rl, req>>

\* invalidateCache's catch rethrows; the mutation handler's catch answers 500.
InvalidateFails(p) ==
  /\ CanFail /\ pc[p] = "inv"
  /\ failures' = failures + 1
  /\ resp' = [resp EXCEPT ![p] = RespError(500, MutationError(loc[p].kind))]
  /\ pc' = [pc EXCEPT ![p] = "done"]
  /\ UNCHANGED <<redis, ttl, armSeq, itemsList, feedRecord, currentConfig, clock,
                 loc, hBy, hist, reused, pf, rl, req>>

\* The success response of a mutation handler, sent after invalidateCache.
MutationRespond(p) ==
  /\ pc[p] = "respond"
  /\ resp' = [resp EXCEPT ![p] =
       IF loc[p].kind = "add"
         THEN [NoResp EXCEPT !.status = 200, !.body = <<"item", p>>]
         ELSE [NoResp EXCEPT !.status = 200, !.config = <<getFeedConfig>>]]
  /\ pc' = [pc EXCEPT ![p] = "done"]
  /\ UNCHANGED <<redis, ttl, armSeq, itemsList, feedRecord, currentConfig, clock,
                 failures, loc, hBy, hist, reused, pf, rl, req>>

\* ---------------------------------------------------------- handleAddItem
AddError(body) ==
  CASE body = "bad json" -> "Invalid JSON"
    [] body = "no content" -> "Missing required field: content or description"
    [] OTHER -> "Missing required field: link"

\* A handler that stores whatever body it is sent.
AddItemStartLax(p, body) ==
  /\ p \in Writers /\ pc[p] = "idle"
  /\ pc' = [pc EXCEPT ![p] = "ai_lpush"]
  /\ loc' = [loc EXCEPT ![p] =
       [@ EXCEPT !.kind = "add", !.body = body, !.cfg = getFeedConfig]]
  /\ UNCHANGED <<redis, ttl, armSeq, itemsList, feedRecord, currentConfig, clock,
                 failures, resp, hBy, hist, reused, pf, rl, req>>

\* Parsing and validation; a valid item enters addItem, whose synchronous
\* head reads the configuration.
AddItemStart(p, body) ==
  /\ p \in Writers /\ pc[p] = "idle"
  /\ IF body = "ok"
       THEN /\ pc' = [pc EXCEPT ![p] = "ai_lpush"]
            /\ resp' = resp
       ELSE /\ pc' = [pc EXCEPT ![p] = "done"]
            /\ resp' = [resp EXCEPT ![p] = RespError(400, AddError(body))]
  /\ loc' = [loc EXCEPT ![p] =
       [@ EXCEPT !.kind = "add", !.body = body, !.cfg = getFeedConfig]]
  /\ UNCHANGED <<redis, ttl, armSeq, itemsList, feedRecord, currentConfig, clock,
                 failures, hBy, hist, reused, pf, rl, req>>

\* addItem: await redis.lpush(itemsKey, item)
AddItemLpush(p) ==
  /\ pc[p] = "ai_lpush"
  /\ itemsList' = <<p>> \o itemsList
  /\ hist' = [hist EXCEPT !.pushed = <<p>> \o @]
  /\ pc' = [pc EXCEPT ![p] = "ai_ltrim"]
  /\ UNCHANGED <<redis, ttl, armSeq, feedRecord, currentConfig, clock, failures,
                 loc, resp, hBy, reused, pf, rl, req>>

\* A trim that keeps one item too many.
AddItemLtrimLoose(p) ==
  /\ pc[p] = "ai_ltrim"
  /\ itemsList' = Lrange(itemsList, loc[p].cfg.maxItems)
  /\ pc' = [pc EXCEPT ![p] = "inv"]
  /\ UNCHANGED <<redis, ttl, armSeq, feedRecord, currentConfig, clock, failures,
                 loc, resp, hBy, hist, reused, pf, rl, req>>

\* addItem: await redis.ltrim(itemsKey, 0, maxItems - 1); invalidateCache follows.
AddItemLtrim(p) ==
  /\ pc[p] = "ai_ltrim"
  /\ itemsList' = Lrange(itemsList, loc[p].cfg.maxItems - 1)
  /\ pc' = [pc EXCEPT ![p] = "inv"]
  /\ UNCHANGED <<redis, ttl, armSeq, feedRecord, currentConfig, clock, failures,
                 loc, resp, hBy, hist, reused, pf, rl, req>>

\* A handler that invalidates the cache although the store write failed.
AddItemFailsInvalidates(p) ==
  /\ CanFail /\ pc[p] \in {"ai_lpush", "ai_ltrim"}
  /\ failures' = failures + 1
  /\ pc' = [pc EXCEPT ![p] = "inv"]
  /\ UNCHANGED <<redis, ttl, armSeq, itemsList, feedRecord, currentConfig, clock,
                 loc, resp, hBy, hist, reused, pf, rl, req>>

\* A failed lpush or ltrim is caught by the handler: 500 Storage Error.
AddItemFails(p) ==
  /\ CanFail /\ pc[p] \in {"ai_lpush", "ai_ltrim"}
  /\ failures' = failures + 1
  /\ resp' = [resp EXCEPT ![p] = RespError(500, "Storage Error")]
  /\ pc' = [pc EXCEPT ![p] = "done"]
  /\ UNCHANGED <<redis, ttl, armSeq, itemsList, feedRecord, currentConfig, clock,
                 loc, hBy, hist, reused, pf, rl, req>>

\* ----------------------------------------------------- handleUpdateConfig
\* Parsing; then setFeedConfig(input) and the call of saveFeedConfig with a
\* copy of the configuration just set.
UpdateConfigStart(p, body) ==
  /\ p \in Writers /\ pc[p] = "idle"
  /\ IF body[1] = "json"
       THEN /\ currentConfig' = <<setFeedConfig(body[2])>>
            /\ loc' = [loc EXCEPT ![p] =
                 [@ EXCEPT !.kind = "config", !.cfg = setFeedConfig(body[2])]]
            /\ pc' = [pc EXCEPT ![p] = "sc_exists"]
            /\ resp' = resp
       ELSE /\ currentConfig' = currentConfig
            /\ loc' = [loc EXCEPT ![p] = [@ EXCEPT !.kind = "config"]]
            /\ pc' = [pc EXCEPT ![p] = "done"]
            /\ resp' = [resp EXCEPT ![p] = RespError(400, "Invalid JSON")]
  /\ UNCHANGED <<redis, ttl, armSeq, itemsList, feedRecord, clock, failures,
                 hBy, hist, reused, pf, rl, req>>

\* saveFeedConfig: await redis.exists(feedKey)
SaveConfigExists(p) ==
  /\ pc[p] = "sc_exists"
  /\ pc' = [pc EXCEPT ![p] = IF feedRecord.exists THEN "sc_get" ELSE "sc_new"]
  /\ UNCHANGED <<redis, ttl, armSeq, itemsList, feedRecord, currentConfig, clock,
                 failures, loc, resp, hBy, hist, reused, pf, rl, req>>

\* saveFeedConfig: await redis.get(feedKey), JSON.parse
SaveConfigGet(p) ==
  /\ pc[p] = "sc_get"
  /\ loc' = [loc EXCEPT ![p] = [@ EXCEPT !.other = feedRecord.other]]
  /\ pc' = [pc EXCEPT ![p] = "sc_set"]
  /\ UNCHANGED <<redis, ttl, armSeq, itemsList, feedRecord, currentConfig, clock,
                 failures, resp, hBy, hist, reused, pf, rl, req>>

\* saveFeedConfig: parsedData.feedConfig = config; await redis.set(feedKey, ...)
SaveConfigSet(p) ==
  /\ pc[p] = "sc_set"
  /\ feedRecord' = [exists |-> TRUE, feedConfig |-> loc[p].cfg,
                    other |-> loc[p].other]
  /\ pc' = [pc EXCEPT ![p] = "inv"]
  /\ UNCHANGED <<redis, ttl, armSeq, itemsList, currentConfig, clock, failures,
                 loc, resp, hBy, hist, reused, pf, rl, req>>

\* A failed get or set of the existing record: the inner catch writes a new entry.
SaveConfigInnerFails(p) ==
  /\ CanFail /\ pc[p] \in {"sc_get", "sc_set"}
  /\ failures' = failures + 1
  /\ pc' = [pc EXCEPT ![p] = "sc_new"]
  /\ UNCHANGED <<redis, ttl, armSeq, itemsList, feedRecord, currentConfig, clock,
                 loc, resp, hBy, hist, reused, pf, rl, req>>

\* saveFeedConfig: await redis.set(feedKey, JSON.stringify({feedConfig: config}))
SaveConfigSetNew(p) ==
  /\ pc[p] = "sc_new"
  /\ feedRecord' = [exists |-> TRUE, feedConfig |-> loc[p].cfg, other |-> {}]
  /\ pc' = [pc EXCEPT ![p] = "inv"]
  /\ UNCHANGED <<redis, ttl, armSeq, itemsList, currentConfig, clock, failures,
                 loc, resp, hBy, hist, reused, pf, rl, req>>

\* saveFeedConfig's outer catch throws; the handler answers 500.
SaveConfigFails(p) ==
  /\ CanFail /\ pc[p] \in {"sc_exists", "sc_new"}
  /\ failures' = failures + 1
  /\ resp' = [resp EXCEPT ![p] = RespError(500, "Configuration Error")]
  /\ pc' = [pc EXCEPT ![p] = "done"]
  /\ UNCHANGED <<redis, ttl, armSeq, itemsList, feedRecord, currentConfig, clock,
                 loc, hBy, hist, reused, pf, rl, req>>

\* A client sends its next request once the previous one is answered.
NextRequest(p) ==
  /\ pc[p] \in {"done", "cf_failed"}
  /\ reused < MaxReuse
  /\ reused' = reused + 1
  /\ pc' = [pc EXCEPT ![p] = "idle"]
  /\ loc' = [loc EXCEPT ![p] =
       IF pc[p] = "done" /\ loc[p].kind = "feed" /\ ~loc[p].hit
            /\ resp[p].status = 200
         THEN [NoLoc EXCEPT !.hPrev =
                 [stored |-> TRUE, fmt |-> loc[p].fmt, content |-> loc[p].content,
                  metadata |-> loc[p].metadata, seen |-> loc[p].hSeen]]
         ELSE NoLoc]
  /\ resp' = [resp EXCEPT ![p] = NoResp]
  /\ UNCHANGED <<redis, ttl, armSeq, itemsList, feedRecord, currentConfig, clock,
                 failures, pf, hBy, hist, rl, req>>

\* The steps of feed requests on the connections S.
FeedSteps(S) ==
  \/ \E p \in S, f \in RequestFormats : GetCachedContent(p, f)
  \/ \E p \in S : GetCachedMetadata(p)
  \/ \E p \in S : GetItems(p)
  \/ \E p \in S : CacheFeedSetContent(p)
  \/ \E p \in S : CacheFeedExpireContent(p)
  \/ \E p \in S : CacheFeedSetMetadata(p)
  \/ \E p \in S : CacheFeedExpireMetadata(p)

FeedFailures(S) ==
  \/ \E p \in S, f \in RequestFormats : GetCachedFeedFails(p, f)
  \/ \E p \in S : GetItemsFails(p)
  \/ \E p \in S : RenderFails(p)
  \/ \E p \in S : CacheFeedFails(p)

MutationSteps(S) ==
  \/ \E p \in S, body \in AddBodies : AddItemStart(p, body)
  \/ \E p \in S : AddItemLpush(p)
  \/ \E p \in S : AddItemLtrim(p)
  \/ \E p \in S, body \in ConfigBodies : UpdateConfigStart(p, body)
  \/ \E p \in S : SaveConfigExists(p)
  \/ \E p \in S : SaveConfigGet(p)
  \/ \E p \in S : SaveConfigSet(p)
  \/ \E p \in S : InvalidateDel(p)
  \/ \E p \in S : MutationRespond(p)

MutationFailures(S) ==
  \/ \E p \in S : AddItemFails(p)
  \/ \E p \in S : SaveConfigInnerFails(p)
  \/ \E p \in S : SaveConfigSetNew(p)
  \/ \E p \in S : SaveConfigFails(p)
  \/ \E p \in S : InvalidateFails(p)

\* Concurrent requests over a store whose commands all succeed.
ConcurrentReaders == 1..(NumReaders - 1)
Next == FeedSteps(ConcurrentReaders) \/ MutationSteps(OneWriter) \/ Tick

Spec == Init /\ [][Next]_vars

\* One connection carrying feed requests one after the other, one mutation,
\* a store whose commands may fail and whose keys expire.
StoreNext ==
  \/ FeedSteps({1}) \/ FeedFailures({1}) \/ NextRequest(1)
  \/ MutationSteps(OneWriter) \/ MutationFailures(OneWriter)
  \/ Tick
  \/ \E k \in CacheKeys : TTLExpire(k)

SpecStore == Init /\ [][StoreNext]_vars

\* Feed requests racing one another on every connection.
RaceNext == FeedSteps(Readers) \/ Tick

SpecRace == Init /\ [][RaceNext]_vars

\* Feed requests served strictly one after the other, over a store whose
\* commands may fail: a request begins only when every other is answered.
Answered(p) == pc[p] \in {"idle", "done", "cf_failed"}
InTurn(p) == \A q \in Readers \ {p} : Answered(q)
GetCachedContentInTurn(p, f) == InTurn(p) /\ GetCachedContent(p, f)
GetCachedFeedFailsInTurn(p, f) == InTurn(p) /\ GetCachedFeedFails(p, f)
SerialNext ==
  \/ \E p \in Readers, f \in RequestFormats : GetCachedContentInTurn(p, f)
  \/ \E p \in Readers, f \in RequestFormats : GetCachedFeedFailsInTurn(p, f)
  \/ \E p \in Readers : GetCachedMetadata(p)
  \/ \E p \in Readers : GetItems(p)
  \/ \E p \in Readers : GetItemsFails(p)
  \/ \E p \in Readers : RenderFails(p)
  \/ \E p \in Readers : CacheFeedSetContent(p)
  \/ \E p \in Readers : CacheFeedExpireContent(p)
  \/ \E p \in Readers : CacheFeedSetMetadata(p)
  \/ \E p \in Readers : CacheFeedExpireMetadata(p)
  \/ \E p \in Readers : CacheFeedFails(p)
  \/ Tick

SpecSerial == Init /\ [][SerialNext]_vars

\* Item-adds on every mutation connection, overlapping freely, in a service
\* whose configuration was set to maxItems = FixedMaxItems by an earlier
\* config update and stays there.
FixedConfig == [DEFAULT_CONFIG EXCEPT !.maxItems = FixedMaxItems]
InitEvict ==
  /\ redis = [k \in CacheKeys |-> Nil]
  /\ ttl = [k \in CacheKeys |-> 0]
  /\ armSeq = 0
  /\ itemsList = <<>>
  /\ feedRecord = [exists |-> TRUE, feedConfig |-> FixedConfig, other |-> {}]
  /\ currentConfig = <<FixedConfig>>
  /\ clock = 0
  /\ failures = 0
  /\ pc = [p \in Procs |-> "idle"]
  /\ loc = [p \in Procs |-> NoLoc]
  /\ resp = [p \in Procs |-> NoResp]
  /\ reused = 0
  /\ pf = NoCall
  /\ hBy = [k \in CacheKeys |-> NoProc]
  /\ hist = [invCompleted |-> FALSE, cfSinceInv |-> FALSE, ttlFired |-> FALSE,
             pushed |-> <<>>, restarts |-> 0]
  /\ rl = NoLimit
  /\ req = [i \in Instances |-> NoReq]

EvictNext ==
  \/ \E p \in Writers, body \in AddBodies : AddItemStart(p, body)
  \/ \E p \in Writers : AddItemLpush(p)
  \/ \E p \in Writers : AddItemLtrim(p)
  \/ \E p \in Writers : InvalidateDel(p)
  \/ \E p \in Writers : MutationRespond(p)

SpecEvict == InitEvict /\ [][EvictNext]_vars

\* ------------------------------------------- the in-memory mock backend
\* USE_REDIS_MOCK=true selects mockRedis, which has lrange, lpush, ltrim,
\* exists, set and getStorageState, and has no get, del or expire: calling
\* one of those throws a TypeError where the call is made.

\* getCachedFeed: redis.get is not a function; the catch returns null.
MockGetCachedFeed(p, f) ==
  /\ p \in Readers /\ pc[p] = "idle"
  /\ pc' = [pc EXCEPT ![p] = "getItems"]
  /\ loc' = [loc EXCEPT ![p] =
       [@ EXCEPT !.kind = "feed", !.fmt = f, !.cfg = getFeedConfig,
                 !.hReadFailed = TRUE, !.hSeen = AddsAnswered]]
  /\ UNCHANGED <<redis, ttl, armSeq, itemsList, feedRecord, currentConfig, clock,
                 failures, resp, hBy, hist, reused, pf, rl, req>>

\* getItems(): with the mock, the list held by getStorageState() is returned
\* as it is; then generateFeed and the synchronous head of cacheFeed.
MockGetItems(p) ==
  /\ pc[p] = "getItems"
  /\ loc' = [loc EXCEPT ![p] =
       [@ EXCEPT !.items = itemsList, !.content = Render(itemsList, loc[p].fmt),
                 !.metadata = NewMetadata(clock)]]
  /\ hist' = [hist EXCEPT !.cfSinceInv = TRUE]
  /\ pc' = [pc EXCEPT ![p] = "cf_set_content"]
  /\ UNCHANGED <<redis, ttl, armSeq, itemsList, feedRecord, currentConfig, clock,
                 failures, resp, hBy, reused, pf, rl, req>>

\* cacheFeed: redis.expire is not a function; cacheFeed rethrows and the
\* handler's catch answers 500.
MockCacheFeedExpire(p) ==
  /\ pc[p] = "cf_expire_content"
  /\ resp' = [resp EXCEPT ![p] = RespError(500, "Feed Generation Error")]
  /\ pc' = [pc EXCEPT ![p] = "cf_failed"]
  /\ UNCHANGED <<redis, ttl, armSeq, itemsList, feedRecord, currentConfig, clock,
                 failures, loc, hBy, hist, reused, pf, rl, req>>

\* invalidateCache: redis.del is not a function; invalidateCache rethrows
\* and the mutation handler's catch answers 500.
MockInvalidate(p) ==
  /\ pc[p] = "inv"
  /\ resp' = [resp EXCEPT ![p] = RespError(500, MutationError(loc[p].kind))]
  /\ pc' = [pc EXCEPT ![p] = "done"]
  /\ UNCHANGED <<redis, ttl, armSeq, itemsList, feedRecord, currentConfig, clock,
                 failures, loc, hBy, hist, reused, pf, rl, req>>

\* saveFeedConfig: redis.get is not a function; the inner catch writes a new entry.
MockSaveConfigGet(p) ==
  /\ pc[p] = "sc_get"
  /\ pc' = [pc EXCEPT ![p] = "sc_new"]
  /\ UNCHANGED <<redis, ttl, armSeq, itemsList, feedRecord, currentConfig, clock,
                 failures, loc, resp, hBy, hist, reused, pf, rl, req>>

OneReader == {1}
MockNext ==
  \/ \E p \in OneReader, f \in RequestFormats : MockGetCachedFeed(p, f)
  \/ \E p \in OneReader : MockGetItems(p)
  \/ \E p \in OneReader : CacheFeedSetContent(p)
  \/ \E p \in OneReader : MockCacheFeedExpire(p)
  \/ \E p \in Writers, body \in AddBodies : AddItemStart(p, body)
  \/ \E p \in Writers : AddItemLpush(p)
  \/ \E p \in Writers : AddItemLtrim(p)
  \/ \E p \in Writers, body \in ConfigBodies : UpdateConfigStart(p, body)
  \/ \E p \in Writers : SaveConfigExists(p)
  \/ \E p \in Writers : MockSaveConfigGet(p)
  \/ \E p \in Writers : SaveConfigSetNew(p)
  \/ \E p \in Writers : MockInvalidate(p)

SpecMock == Init /\ [][MockNext]_vars

\* Concurrent feed requests and one mutation over a store whose commands
\* all complete.  Node runs the continuation of every command that has
\* completed, so no request that can take a step is left waiting for ever.
RequestStep(p) == FeedSteps({p}) \/ MutationSteps({p})
LiveNext == FeedSteps(ConcurrentReaders) \/ MutationSteps(OneWriter)
SpecLive ==
  /\ Init /\ [][LiveNext]_vars
  /\ \A p \in ConcurrentReaders \cup OneWriter : WF_vars(RequestStep(p))

\* Config updates on two mutation connections, with any maxItems a JSON body
\* can hold, over a store whose commands may fail.  The record feed:main is
\* either the one initializeFeed created or one found at start-up, holding
\* another key beside feedConfig, whose configuration initializeFeed loaded.
MaxItemsInputs ==
  {<<"null">>, <<"string", "5">>, <<"num", 0, 0>>, <<"num", 0 - 1, 0>>,
   <<"num", 2, 0>>, <<"num", 0, 1>>, <<"num", 2, 1>>}
AnyConfigBodies ==
  ConfigBodies \cup
    {<<"json", [id |-> "other", title |-> "", maxItems |-> m]>> : m \in MaxItemsInputs}
StoredOther == {{}, {"lastUpdated"}}

InitConfig ==
  /\ redis = [k \in CacheKeys |-> Nil]
  /\ ttl = [k \in CacheKeys |-> 0]
  /\ armSeq = 0
  /\ itemsList = <<>>
  /\ \E o \in StoredOther :
       /\ feedRecord = [exists |-> TRUE, feedConfig |-> DEFAULT_CONFIG, other |-> o]
       /\ currentConfig = IF o = {} THEN <<>> ELSE <<setFeedConfig(
            [id |-> DEFAULT_CONFIG.id, title |-> DEFAULT_CONFIG.title,
             maxItems |-> <<"num", DEFAULT_CONFIG.maxItems, 0>>])>>
  /\ clock = 0
  /\ failures = 0
  /\ pc = [p \in Procs |-> "idle"]
  /\ loc = [p \in Procs |-> NoLoc]
  /\ resp = [p \in Procs |-> NoResp]
  /\ reused = 0
  /\ pf = NoCall
  /\ hBy = [k \in CacheKeys |-> NoProc]
  /\ hist = [invCompleted |-> FALSE, cfSinceInv |-> FALSE, ttlFired |-> FALSE,
             pushed |-> <<>>, restarts |-> 0]
  /\ rl = NoLimit
  /\ req = [i \in Instances |-> NoReq]

TwoWriters == {NumReaders + 1, NumReaders + 2}
ConfigNext ==
  \/ \E p \in TwoWriters, body \in AnyConfigBodies : UpdateConfigStart(p, body)
  \/ \E p \in TwoWriters : SaveConfigExists(p)
  \/ \E p \in TwoWriters : SaveConfigGet(p)
  \/ \E p \in TwoWriters : SaveConfigSet(p)
  \/ \E p \in TwoWriters : SaveConfigInnerFails(p)
  \/ \E p \in TwoWriters : SaveConfigSetNew(p)
  \/ \E p \in TwoWriters : SaveConfigFails(p)
  \/ \E p \in TwoWriters : InvalidateDel(p)
  \/ \E p \in TwoWriters : InvalidateFails(p)
  \/ \E p \in TwoWriters : MutationRespond(p)

SpecConfig == InitConfig /\ [][ConfigNext]_vars

\* ------------------------------------------------------------- start-up
\* One instance over a store that is empty or holds a record: the process
\* starts, runs initializeFeed and only then serves requests; a restart ends
\* every request in flight and loses the configuration in memory.  The
\* position of the start-up code is kept at index Starter.
Starter == NumReaders + NumWriters
BootPcs == {"if_exists", "if_set", "if_get"}
Up == pc[Starter] = "done"

\* JSON.parse of a stored feedConfig: the argument setFeedConfig is given.
StoredToInput(c) ==
  [id |-> c.id, title |-> c.title,
   maxItems |-> <<"num", c.maxItems, c.maxItemsHalf>>]

NoRecord == [exists |-> FALSE, feedConfig |-> DEFAULT_CONFIG, other |-> {}]

InitRestart ==
  /\ redis = [k \in CacheKeys |-> Nil]
  /\ ttl = [k \in CacheKeys |-> 0]
  /\ armSeq = 0
  /\ itemsList = <<>>
  /\ feedRecord \in {NoRecord, [NoRecord EXCEPT !.exists = TRUE]}
  /\ currentConfig = <<>>
  /\ clock = 0
  /\ failures = 0
  /\ pc = [p \in Procs |-> IF p = Starter THEN "if_exists" ELSE "idle"]
  /\ loc = [p \in Procs |-> NoLoc]
  /\ resp = [p \in Procs |-> NoResp]
  /\ reused = 0
  /\ pf = NoCall
  /\ hBy = [k \in CacheKeys |-> NoProc]
  /\ hist = [invCompleted |-> FALSE, cfSinceInv |-> FALSE, ttlFired |-> FALSE,
             pushed |-> <<>>, restarts |-> 0]
  /\ rl = NoLimit
  /\ req = [i \in Instances |-> NoReq]

\* The process is started again.
Restart(p) ==
  /\ p = Starter /\ Up
  /\ hist.restarts < MaxRestart
  /\ hist' = [hist EXCEPT !.restarts = @ + 1]
  /\ currentConfig' = <<>>
  /\ pc' = [q \in Procs |-> IF q = p THEN "if_exists" ELSE "idle"]
  /\ loc' = [q \in Procs |-> NoLoc]
  /\ resp' = [q \in Procs |-> NoResp]
  /\ UNCHANGED <<redis, ttl, armSeq, itemsList, feedRecord, clock, failures,
                 reused, pf, hBy, rl, req>>

\* initializeFeed: await redis.exists(feedKey)
InitFeedExists(p) ==
  /\ p = Starter /\ pc[p] = "if_exists"
  /\ pc' = [pc EXCEPT ![p] = IF feedRecord.exists THEN "if_get" ELSE "if_set"]
  /\ UNCHANGED <<redis, ttl, armSeq, itemsList, feedRecord, currentConfig, clock,
                 failures, loc, resp, reused, pf, hBy, hist, rl, req>>

\* initializeFeed: await redis.set(feedKey, {feedConfig: getFeedConfig()})
InitFeedSet(p) ==
  /\ p = Starter /\ pc[p] = "if_set"
  /\ feedRecord' = [exists |-> TRUE, feedConfig |-> getFeedConfig, other |-> {}]
  /\ pc' = [pc EXCEPT ![p] = "done"]
  /\ UNCHANGED <<redis, ttl, armSeq, itemsList, currentConfig, clock,
                 failures, loc, resp, reused, pf, hBy, hist, rl, req>>

\* An initializeFeed that leaves the stored configuration unread.
InitFeedGetIgnores(p) ==
  /\ p = Starter /\ pc[p] = "if_get"
  /\ pc' = [pc EXCEPT ![p] = "done"]
  /\ UNCHANGED <<redis, ttl, armSeq, itemsList, feedRecord, currentConfig, clock,
                 failures, loc, resp, reused, pf, hBy, hist, rl, req>>

\* initializeFeed: await redis.get(feedKey), JSON.parse, setFeedConfig
InitFeedGet(p) ==
  /\ p = Starter /\ pc[p] = "if_get"
  /\ currentConfig' = <<setFeedConfig(StoredToInput(feedRecord.feedConfig))>>
  /\ pc' = [pc EXCEPT ![p] = "done"]
  /\ UNCHANGED <<redis, ttl, armSeq, itemsList, feedRecord, clock,
                 failures, loc, resp, reused, pf, hBy, hist, rl, req>>

\* The server listens once initializeFeed has returned.
UpdateConfigWhenUp(p, body) == Up /\ UpdateConfigStart(p, body)

RestartNext ==
  \/ \E p \in {Starter} : Restart(p)
  \/ \E p \in {Starter} : InitFeedExists(p)
  \/ \E p \in {Starter} : InitFeedSet(p)
  \/ \E p \in {Starter} : InitFeedGet(p)
  \/ \E p \in OneWriter, body \in AnyConfigBodies : UpdateConfigWhenUp(p, body)
  \/ \E p \in OneWriter : SaveConfigExists(p)
  \/ \E p \in OneWriter : SaveConfigGet(p)
  \/ \E p \in OneWriter : SaveConfigSet(p)
  \/ \E p \in OneWriter : InvalidateDel(p)
  \/ \E p \in OneWriter : MutationRespond(p)

SpecRestart == InitRestart /\ [][RestartNext]_vars

\* ------------------------------------------- the protection middleware
\* requestTimeout, then rateLimiter, then the downstream handler, for the
\* requests of one client IP on every instance.  The counter key ratelimit:ip
\* is in the shared store; memCache is each instance's own.

Methods == {"GET", "POST"}
OtherVars == <<redis, ttl, armSeq, itemsList, feedRecord, currentConfig, clock,
               pc, loc, resp, reused, pf, hBy, hist>>

\* clearTimeout(timeoutId) when next() has returned.
ClearTimer(t) == IF t = "pending" THEN "cleared" ELSE t

\* The end of rateLimiter's try block: 429 above the limit, else next().
Limited(r, requests) ==
  IF requests > RATE_LIMIT_MAX
    THEN [r EXCEPT !.pc = "done", !.requests = requests, !.status = 429,
                   !.timer = ClearTimer(@)]
    ELSE [r EXCEPT !.pc = "done", !.requests = requests, !.nexts = @ + 1,
                   !.status = 200, !.timer = ClearTimer(@)]
Passes(requests) == IF requests > RATE_LIMIT_MAX THEN 0 ELSE 1

\* A limiter whose catch rejects the request.
FailClosed(r) ==
  [r EXCEPT !.pc = "done", !.failed = TRUE, !.status = 429,
            !.timer = ClearTimer(@)]

\* rateLimiter's catch: log, then next().
FailOpen(r) ==
  [r EXCEPT !.pc = "done", !.failed = TRUE, !.nexts = @ + 1, !.status = 200,
            !.timer = ClearTimer(@)]

\* requestTimeout arms its timer and calls rateLimiter.  A request that is
\* not a GET goes straight to next(); a GET with a live memCache entry counts
\* in memCache alone; any other GET sends the pipeline incr + ttl.
LimiterStart(i, method) ==
  /\ req[i].pc \in {"idle", "done"}
  /\ method = "GET" => rl.served < RATE_LIMIT_MAX + MaxOver
  /\ LET r == [NoReq EXCEPT !.method = method, !.timer = "pending"]
     IN  IF method # "GET"
           THEN /\ req' = [req EXCEPT ![i] =
                     [r EXCEPT !.pc = "done", !.nexts = 1, !.status = 200,
                               !.timer = "cleared"]]
                /\ rl' = rl
           ELSE IF rl.mem[i] > 0
             THEN /\ req' = [req EXCEPT ![i] = Limited(r, rl.mem[i] + 1)]
                  /\ rl' = [rl EXCEPT !.mem[i] = @ + 1, !.served = @ + 1,
                                      !.passed = @ + Passes(rl.mem[i] + 1)]
             ELSE /\ req' = [req EXCEPT ![i] = [r EXCEPT !.pc = "exec"]]
                  /\ rl' = [rl EXCEPT !.served = @ + 1]
  /\ UNCHANGED <<failures, OtherVars>>

\* pipeline.exec() returns [incr, ttl]; ttl is negative for a key without
\* expiry.  Either redis.expire follows or memCache is set and the limit checked.
LimiterExec(i) ==
  /\ req[i].pc = "exec"
  /\ LET requests == rl.count + 1
     IN  IF requests = 1 \/ ~rl.armed
           THEN /\ req' = [req EXCEPT ![i] =
                     [@ EXCEPT !.pc = "expire", !.requests = requests]]
                /\ rl' = [rl EXCEPT !.count = requests]
           ELSE /\ req' = [req EXCEPT ![i] = Limited(@, requests)]
                /\ rl' = [rl EXCEPT !.count = requests, !.mem[i] = requests,
                                    !.passed = @ + Passes(requests)]
  /\ UNCHANGED <<failures, OtherVars>>

\* pipeline.exec() throws, with the incr applied or not.
LimiterExecFails(i, applied) ==
  /\ CanFail /\ req[i].pc = "exec"
  /\ failures' = failures + 1
  /\ req' = [req EXCEPT ![i] = FailOpen(@)]
  /\ rl' = [rl EXCEPT !.count = IF applied THEN @ + 1 ELSE @, !.passed = @ + 1]
  /\ UNCHANGED OtherVars

\* redis.expire(key, window) returns; memCache is set and the limit checked.
LimiterExpire(i) ==
  /\ req[i].pc = "expire"
  /\ req' = [req EXCEPT ![i] = Limited(@, req[i].requests)]
  /\ rl' = [rl EXCEPT !.armed = rl.count > 0, !.mem[i] = req[i].requests,
                      !.passed = @ + Passes(req[i].requests)]
  /\ UNCHANGED <<failures, OtherVars>>

\* redis.expire throws.
LimiterExpireFails(i) ==
  /\ CanFail /\ req[i].pc = "expire"
  /\ failures' = failures + 1
  /\ req' = [req EXCEPT ![i] = FailOpen(@)]
  /\ rl' = [rl EXCEPT !.passed = @ + 1]
  /\ UNCHANGED OtherVars

\* The 30-second timer of requestTimeout fires: controller.abort().  Nothing
\* downstream listens to the signal.
TimerFires(i) ==
  /\ req[i].timer = "pending" /\ req[i].pc \in {"exec", "expire"}
  /\ req' = [req EXCEPT ![i] = [@ EXCEPT !.timer = "fired"]]
  /\ UNCHANGED <<rl, failures, OtherVars>>

\* The window ends: the store drops the counter key, and the memCache
\* entries, which expire with it, are dead.
WindowPasses ==
  /\ rl.armed /\ rl.windows < MaxWindow
  /\ rl' = [NoLimit EXCEPT !.windows = rl.windows + 1]
  /\ UNCHANGED <<req, failures, OtherVars>>

ProtectNext ==
  \/ \E i \in Instances, method \in Methods : LimiterStart(i, method)
  \/ \E i \in Instances : LimiterExec(i)
  \/ \E i \in Instances : LimiterExpire(i)
  \/ \E i \in Instances : TimerFires(i)
  \/ WindowPasses

\* The middleware over a store whose commands all succeed.
SpecProtect == Init /\ [][ProtectNext]_vars

OneInstance == {1}
ProtectFailNext ==
  \/ \E i \in OneInstance, method \in Methods : LimiterStart(i, method)
  \/ \E i \in OneInstance : LimiterExec(i)
  \/ \E i \in OneInstance, applied \in BOOLEAN : LimiterExecFails(i, applied)
  \/ \E i \in OneInstance : LimiterExpire(i)
  \/ \E i \in OneInstance : LimiterExpireFails(i)
  \/ \E i \in OneInstance : TimerFires(i)
  \/ WindowPasses

\* The middleware of one instance over a store whose commands may fail.
SpecProtectFail == Init /\ [][ProtectFailNext]_vars

\* isCacheValid taken alone, on every pair of request headers and every
\* metadata record that cacheFeed or getCachedFeed's fallback can produce.
IfNoneMatchValues == {Null, EmptyStr} \cup {Etag(t) : t \in 0..MaxClock}
IfModifiedSinceValues ==
  {Null, EmptyStr, Garbage} \cup {ToISOString(t) : t \in 0..MaxClock}
MetadataValues ==
  {[lastModified |-> ToISOString(t1), etag |-> Etag(t2)] :
     t1 \in 0..MaxClock, t2 \in 0..MaxClock}

InitValid ==
  /\ redis = [k \in CacheKeys |-> Nil]
  /\ ttl = [k \in CacheKeys |-> 0]
  /\ armSeq = 0
  /\ itemsList = <<>>
  /\ feedRecord = [exists |-> TRUE, feedConfig |-> DEFAULT_CONFIG, other |-> {}]
  /\ currentConfig = <<>>
  /\ clock = 0
  /\ failures = 0
  /\ pc = [p \in Procs |-> "idle"]
  /\ loc = [p \in Procs |-> NoLoc]
  /\ resp = [p \in Procs |-> NoResp]
  /\ reused = 0
  /\ hBy = [k \in CacheKeys |-> NoProc]
  /\ hist = [invCompleted |-> FALSE, cfSinceInv |-> FALSE, ttlFired |-> FALSE,
             pushed |-> <<>>, restarts |-> 0]
  /\ rl = NoLimit
  /\ req = [i \in Instances |-> NoReq]
  /\ \E h1 \in IfNoneMatchValues, h2 \in IfModifiedSinceValues, m \in MetadataValues :
       pf = [h |-> <<h1, h2>>, m |-> m, done |-> FALSE, out |-> FALSE]

CallIsCacheValid ==
  /\ ~pf.done
  /\ pf' = [pf EXCEPT !.done = TRUE, !.out = isCacheValid(pf.h, pf.m)]
  /\ UNCHANGED <<redis, ttl, armSeq, itemsList, feedRecord, currentConfig, clock,
                 failures, pc, loc, resp, reused, hBy, hist, rl, req>>

SpecValid == InitValid /\ [][CallIsCacheValid]_vars

\* ================================================================= claims
Contains(seq, x) == \E i \in 1..Len(seq) : seq[i] = x
\* The request went through the miss path and cacheFeed wrote all it writes.
Stored(p) == pc[p] = "done" /\ loc[p].kind = "feed" /\ ~loc[p].hit
             /\ resp[p].status = 200
\* getCachedFeed found the content key present.
ObservedContent(p) == pc[p] = "gcf_meta" \/ loc[p].hit
NoCacheFeedInFlight == \A p \in Procs : pc[p] \notin CacheFeedPcs
NoInvalidationInFlight == \A p \in Procs : pc[p] # "inv"

\* C1: a getCachedFeed that starts after an invalidateCache call has
\* completed, with no cacheFeed started after that invalidation, observes a
\* miss (so the read that follows a successful item-add or config-update
\* regenerates, whatever the format).
C1_MissAfterInvalidation ==
  \A p \in Readers : (pc[p] # "idle" /\ loc[p].hAfterInv) => ~ObservedContent(p)

\* C2: a feed request issued after the success response of an item-add is
\* answered, when it is answered 200, with a body rendered from an item list
\* that contains the added item.
C2_ReadAfterWrite ==
  \A p \in Readers : \A w \in loc[p].hSeen :
    resp[p].status = 200 => Contains(resp[p].body[3], w)

\* C3: a getCachedFeed that begins after every other feed request, and so
\* every racing cacheFeed call, has completed returns content and metadata
\* written by the same call.
C3_SelfConsistentPair ==
  \A p \in Readers :
    (loc[p].hit /\ loc[p].hQuiet) => loc[p].hContentBy = loc[p].hMetadataBy

\* C4: a getCachedFeed that overlaps an invalidateCache and finds the content
\* of a completely cached entry returns it with the metadata that was stored
\* with that content, never with any other metadata.
C4_OldContentWithItsMetadata ==
  \A p \in Readers :
    (loc[p].hit /\ loc[p].hPaired /\ loc[p].hInvInFlight)
      => loc[p].metadata = loc[loc[p].hContentBy].metadata

\* C5: when no cacheFeed and no invalidateCache is in flight and no store
\* command has failed, a format whose content key is present has its
\* metadata key present too.
C5_ContentHasMetadata ==
  (NoCacheFeedInFlight /\ NoInvalidationInFlight /\ failures = 0)
    => \A f \in Formats : redis[CacheKey(f)] # Nil => redis[MetadataKey(f)] # Nil

\* C6: a cacheFeed that fails between its store commands leaves the entry of
\* its format as it was before or entirely absent; on a cache nothing else
\* has touched, where there was no entry before, both keys are absent.
C6_FailedCacheFeedLeavesNoTornEntry ==
  \A p \in Readers :
    (/\ pc[p] = "cf_failed" /\ reused = 0 /\ ~hist.ttlFired
     /\ \A w \in Writers : pc[w] = "idle")
      => /\ redis[CacheKey(loc[p].fmt)] = Nil
         /\ redis[MetadataKey(loc[p].fmt)] = Nil

\* C7: the success response of item-add and of config-update is sent only
\* after invalidateCache has deleted the content key and the metadata key of
\* every format.
C7_ResponseAfterInvalidation ==
  \A w \in Writers :
    resp[w].status = 200 =>
      \A f \in Formats : {CacheKey(f), MetadataKey(f)} \subseteq loc[w].deleted
C7_Witness ==
  \E w \in Writers : resp[w].status = 200 /\ loc[w].kind = "add"

\* C8: two cacheFeed calls for the same format that store different content
\* produce different etags, also when both read the same clock value.
C8_DifferentContentDifferentEtag ==
  \A p, q \in Readers :
    (/\ Stored(p) /\ Stored(q) /\ loc[p].fmt = loc[q].fmt
     /\ loc[p].content # loc[q].content)
      => loc[p].metadata.etag # loc[q].metadata.etag

\* C9: isCacheValid is true exactly when If-None-Match is present and equal
\* to the etag, or If-Modified-Since is present, both it and lastModified
\* parse to valid dates and lastModified <= If-Modified-Since.
C9_IsCacheValidCharacterisation ==
  pf.done =>
    (pf.out <=>
       \/ pf.h[1] # Null /\ pf.h[1] = pf.m.etag
       \/ /\ pf.h[2] # Null
          /\ ParseDate(pf.h[2]) # NaN
          /\ ParseDate(pf.m.lastModified) # NaN
          /\ ParseDate(pf.m.lastModified) <= ParseDate(pf.h[2]))
C9_Witness ==
  /\ pf.done /\ pf.out /\ pf.h[1] # pf.m.etag
  /\ ParseDate(pf.m.lastModified) <= ParseDate(pf.h[2])

\* C10: a feed request that finds a cached entry for which isCacheValid is
\* true is answered 304 with no body, the cached ETag and Last-Modified and
\* Cache-Control "public, max-age=600"; no 304 is sent on a miss.
C10_NotModified ==
  \A p \in Readers :
    /\ (loc[p].hit /\ loc[p].valid) =>
         /\ resp[p].status = 304
         /\ resp[p].body = Nil
         /\ resp[p].etag = loc[p].metadata.etag
         /\ resp[p].lastModified = loc[p].metadata.lastModified
         /\ resp[p].cacheControl = "public, max-age=600"
    /\ resp[p].status = 304 => (loc[p].hit /\ loc[p].valid)
C10_Witness ==
  \E p \in Readers : resp[p].status = 304 /\ loc[p].headers[1] = loc[p].metadata.etag

\* The step in which request p gets the reply to its metadata read and answers.
AnswersHit(p) == pc[p] = "gcf_meta" /\ pc'[p] = "done"

\* C11: a feed request whose getCachedFeed returns an entry for which
\* isCacheValid is false is answered 200 with exactly the cached content and
\* the ETag and Last-Modified of the cached metadata; on this path the
\* handler reads no items, renders nothing, writes no cache key and issues no
\* further command.
C11_HitServedFromCache ==
  /\ [](\A p \in Readers : loc[p].hit => pc[p] = "done")
  /\ [][\A p \in Readers :
         (AnswersHit(p) /\ ~loc'[p].valid) =>
           /\ resp'[p].status = 200
           /\ resp'[p].body = loc[p].content
           /\ resp'[p].etag = loc'[p].metadata.etag
           /\ resp'[p].lastModified = loc'[p].metadata.lastModified
           /\ redis[MetadataKey(loc[p].fmt)] # Nil =>
                /\ resp'[p].etag = JSONParse(redis[MetadataKey(loc[p].fmt)]).etag
                /\ resp'[p].lastModified =
                     JSONParse(redis[MetadataKey(loc[p].fmt)]).lastModified
           /\ loc'[p].items = loc[p].items
           /\ UNCHANGED <<redis, ttl, armSeq, itemsList, hBy>>]_vars
C11_Witness ==
  \E p \in Readers :
    /\ loc[p].hit /\ ~loc[p].valid /\ resp[p].status = 200
    /\ resp[p].body = redis[CacheKey(loc[p].fmt)]
    /\ loc[p].headers # <<Null, Null>>

\* Request p takes a step of its own.
Steps(p) == pc'[p] # pc[p]

\* C12: a feed request whose getCachedFeed returns absent, and whose
\* commands all succeed, reads the items, renders them for the requested
\* format, writes that rendering and the metadata with cacheFeed, and
\* answers 200 with the rendered body and the ETag and Last-Modified that
\* cacheFeed returned, which are those it wrote to the metadata key.
C12_MissRendersStoresAnswers ==
  /\ [](\A p \in Readers :
         Stored(p) =>
           /\ resp[p].body = <<"feed", loc[p].fmt, loc[p].items>>
           /\ resp[p].etag = loc[p].metadata.etag
           /\ resp[p].lastModified = loc[p].metadata.lastModified
           /\ resp[p].contentType = getContentType(loc[p].fmt))
  /\ [][\A p \in Readers :
         /\ (pc[p] = "getItems" /\ Steps(p) /\ failures' = failures) =>
              /\ pc'[p] = "cf_set_content"
              /\ loc'[p].items = SubSeq(itemsList, 1, Len(loc'[p].items))
              /\ \/ Len(loc'[p].items) = Len(itemsList)
                 \/ Len(loc'[p].items) = loc[p].cfg.maxItems
              /\ loc'[p].content = <<"feed", loc[p].fmt, loc'[p].items>>
         /\ (pc[p] = "cf_set_content" /\ Steps(p) /\ failures' = failures) =>
              redis'[CacheKey(loc[p].fmt)] = loc[p].content
         /\ (pc[p] = "cf_set_metadata" /\ Steps(p) /\ failures' = failures) =>
              JSONParse(redis'[MetadataKey(loc[p].fmt)]) = loc[p].metadata
         /\ (pc[p] \in CacheFeedPcs /\ Steps(p) /\ failures' = failures) =>
              /\ loc'[p].content = loc[p].content
              /\ loc'[p].metadata = loc[p].metadata
              /\ pc'[p] \in CacheFeedPcs \cup {"done"}
              /\ pc'[p] = "done" => resp'[p].status = 200]_vars
C12_Witness ==
  \E p \in Readers :
    /\ Stored(p) /\ Len(loc[p].items) > 0
    /\ redis[CacheKey(loc[p].fmt)] = resp[p].body
    /\ redis[MetadataKey(loc[p].fmt)] # Nil
    /\ JSONParse(redis[MetadataKey(loc[p].fmt)]).etag = resp[p].etag

\* C13: when the item read or the rendering of a feed request fails, the
\* request is answered 500 with a JSON body that has an 'error' and a
\* 'message' field, and the request creates and changes no cache key: not
\* in the failing step, not in the reads before it, and it issues no
\* command after it.
C13_RenderErrorCachesNothing ==
  [][\A p \in Readers :
       /\ (pc[p] = "getItems" /\ Steps(p) /\ failures' > failures) =>
            /\ pc'[p] = "done"
            /\ resp'[p].status = 500
            /\ resp'[p].contentType = "application/json"
            /\ resp'[p].error # "" /\ resp'[p].message # ""
            /\ resp'[p].body = Nil
       /\ (pc[p] \in {"idle", "gcf_meta", "getItems"} /\ Steps(p)) =>
            UNCHANGED <<redis, ttl, armSeq, hBy>>
       /\ (pc[p] = "done" /\ Steps(p)) => pc'[p] = "idle"]_vars
C13_Witness ==
  \E p \in Readers :
    /\ pc[p] = "done" /\ loc[p].kind = "feed" /\ ~loc[p].hit
    /\ resp[p].status = 500 /\ resp[p].error = "Feed Generation Error"
    /\ itemsList # <<>>
    /\ \A k \in CacheKeys : redis[k] = Nil

\* Request p follows, on its connection, a request that stored a rendering
\* of the same format, and since that request began nothing else has acted:
\* no command has failed, no key has expired, and every mutation is either
\* not begun or was answered before it.
FollowsStore(p) ==
  /\ pc[p] # "idle" /\ loc[p].kind = "feed"
  /\ loc[p].hPrev.stored /\ loc[p].hPrev.fmt = loc[p].fmt
  /\ failures = 0 /\ ~hist.ttlFired
  /\ \A w \in Writers : pc[w] = "idle" \/ w \in loc[p].hPrev.seen

\* C14: when a GET populates the cache and returns ETag E, a following GET
\* for the same format that sends If-None-Match: E, with no mutation,
\* invalidation or expiry in between, finds the entry and is answered 304
\* with no body and ETag E.
C14_ConditionalGetNotModified ==
  \A p \in Readers :
    FollowsStore(p) =>
      /\ ObservedContent(p)
      /\ (pc[p] = "done" /\ loc[p].headers[1] = loc[p].hPrev.metadata.etag) =>
           /\ resp[p].status = 304
           /\ resp[p].body = Nil
           /\ resp[p].etag = loc[p].hPrev.metadata.etag
C14_Witness ==
  \E p \in Readers :
    /\ FollowsStore(p) /\ pc[p] = "done" /\ resp[p].status = 304
    /\ loc[p].headers = <<loc[p].hPrev.metadata.etag, Null>>

\* C15: a getCachedFeed that directly follows a completed cacheFeed of the
\* same format, with nothing else acting on the format in between, returns
\* exactly the content that cacheFeed was given and exactly the metadata
\* (etag and lastModified) that cacheFeed returned.
C15_RoundTrip ==
  \A p \in Readers :
    FollowsStore(p) =>
      /\ pc[p] \in {"gcf_meta", "done"}
      /\ pc[p] = "gcf_meta" => loc[p].content = loc[p].hPrev.content
      /\ pc[p] = "done" =>
           /\ loc[p].hit
           /\ loc[p].content = loc[p].hPrev.content
           /\ loc[p].metadata = loc[p].hPrev.metadata
C15_Witness ==
  \E p \in Readers :
    /\ FollowsStore(p) /\ pc[p] = "done" /\ loc[p].hit
    /\ loc[p].content = <<"feed", loc[p].fmt, <<NumReaders + 1>>>>
    /\ loc[p].metadata = NewMetadata(1)
    /\ clock = 1

\* C16: two consecutive getCachedFeed calls for a format, with no mutation,
\* cache write, invalidation or expiry between them (both read the values
\* left by the same writes), return identical content and identical
\* metadata, also when the content key exists and the metadata key does not.
C16_IdempotentReread ==
  \A p, q \in Readers :
    (/\ loc[p].hit /\ loc[q].hit /\ loc[p].fmt = loc[q].fmt
     /\ loc[p].hContentBy = loc[q].hContentBy
     /\ loc[p].hMetadataBy = loc[q].hMetadataBy)
      => /\ loc[p].content = loc[q].content
         /\ loc[p].metadata = loc[q].metadata

\* C17: when the content key of a format is present and its metadata key is
\* missing, getCachedFeed returns the content with a metadata record built
\* from the current time; it returns neither absent nor an error, and the
\* request is answered from the cache.
C17_SynthesizedMetadata ==
  [][\A p \in Readers :
       (/\ pc[p] = "gcf_meta" /\ Steps(p) /\ failures' = failures
        /\ redis[MetadataKey(loc[p].fmt)] = Nil)
         => /\ pc'[p] = "done"
            /\ loc'[p].hit
            /\ loc'[p].content = loc[p].content
            /\ loc'[p].metadata.etag = Etag(clock)
            /\ loc'[p].metadata.lastModified = ToISOString(clock)
            /\ resp'[p].status \in {200, 304}
            /\ resp'[p].etag = Etag(clock)]_vars
C17_Witness ==
  \E p \in Readers :
    /\ loc[p].hit /\ loc[p].hContentBy # NoProc /\ loc[p].hMetadataBy = NoProc
    /\ redis[CacheKey(loc[p].fmt)] = loc[p].content
    /\ redis[MetadataKey(loc[p].fmt)] = Nil
    /\ loc[p].metadata = [lastModified |-> ToISOString(1), etag |-> Etag(1)]

\* The step in which the invalidateCache call of mutation w has a delete fail.
InvalidationFailure(w) == pc[w] = "inv" /\ Steps(w) /\ failures' > failures

\* C18: when the store write of a mutation has succeeded and a delete of
\* the invalidateCache that follows fails, the handler still answers the
\* caller with success: the failure does not become an error response.
C18_InvalidationFailureStillSuccess ==
  [][\A w \in Writers :
       InvalidationFailure(w) => /\ resp'[w].status # 500
                                 /\ pc'[w] \in {"inv", "respond"}]_vars

\* C19: invalidateCache reports an error to its caller whenever one of its
\* eight deletes fails, whichever it is and however many deletes of the call
\* succeeded before: the call ends there, the caller's catch runs, and the
\* deletes already done stay done.
C19_InvalidationErrorSurfaced ==
  [][\A w \in Writers :
       InvalidationFailure(w) =>
         /\ pc'[w] = "done"
         /\ resp'[w].status = 500
         /\ resp'[w].error = IF loc[w].kind = "add" THEN "Storage Error"
                              ELSE "Configuration Error"
         /\ loc'[w].deleted = loc[w].deleted
         /\ UNCHANGED <<redis, ttl>>]_vars
C19_Witness ==
  \E w \in Writers :
    /\ pc[w] = "done" /\ resp[w].status = 500
    /\ Cardinality(loc[w].deleted) = Len(InvalidateKeySeq) - 1

\* The commands of addItem and saveFeedConfig whose failure fails the write.
StoreWritePcs == {"ai_lpush", "ai_ltrim", "sc_exists", "sc_new"}
\* The positions of a mutation handler before its invalidateCache call.
BeforeInvalidationPcs ==
  {"idle", "ai_lpush", "ai_ltrim", "sc_exists", "sc_get", "sc_set", "sc_new"}

\* C20: when the store write of item-add or the persist of config-update
\* fails, the handler answers with an error, invalidateCache is not called
\* (no key has been or will be deleted by the request) and the request
\* leaves every cache key as it was.
C20_FailedWriteSkipsInvalidation ==
  [][\A w \in Writers :
       /\ (pc[w] \in StoreWritePcs /\ Steps(w) /\ failures' > failures) =>
            /\ pc'[w] = "done"
            /\ resp'[w].status = 500
            /\ resp'[w].error # ""
            /\ loc'[w].deleted = {}
       /\ (pc[w] \in BeforeInvalidationPcs /\ Steps(w)) =>
            UNCHANGED <<redis, ttl, armSeq, hBy>>
       /\ pc[w] = "done" => pc'[w] = "done"]_vars
C20_Witness ==
  \E w \in Writers :
    /\ pc[w] = "done" /\ resp[w].status = 500 /\ loc[w].kind = "config"
    /\ feedRecord.feedConfig # loc[w].cfg
    /\ loc[w].deleted = {}
    /\ \E f \in Formats : redis[CacheKey(f)] # Nil /\ redis[MetadataKey(f)] # Nil

\* C21: a feed request whose cache read in getCachedFeed failed is never
\* answered with an error because of the cache: once it has read and
\* rendered the items it is answered 200 with the fresh rendering, also
\* when the cache store fails again while the rendering is cached.
C21_CacheReadFailureIsMiss ==
  \A p \in Readers :
    (/\ loc[p].hReadFailed /\ pc[p] \in {"done", "cf_failed"}
     /\ loc[p].content # Nil) =>
      /\ resp[p].status = 200
      /\ resp[p].body = <<"feed", loc[p].fmt, loc[p].items>>

NoAddItemInFlight == \A w \in Writers : pc[w] \notin {"ai_lpush", "ai_ltrim"}

\* C23: with maxItems fixed at M, once the N addItem calls made so far have
\* all completed, overlapping or not, the item list holds exactly the
\* min(N, M) most recently pushed items, newest first.
C23_EvictionBound ==
  NoAddItemInFlight =>
    /\ Len(itemsList) = Min(Len(hist.pushed), FixedMaxItems)
    /\ itemsList = SubSeq(hist.pushed, 1, Len(itemsList))
C23_Witness ==
  /\ NoAddItemInFlight
  /\ Len(hist.pushed) = NumWriters /\ Len(hist.pushed) > FixedMaxItems
  /\ Len(itemsList) = FixedMaxItems
  /\ itemsList[1] < itemsList[2]
  /\ \A w \in Writers : resp[w].status = 200

\* C24: getItems never returns more items than the maxItems in effect when
\* it is called: not between the push and the trim of an addItem in flight,
\* not after a config update has lowered maxItems, with the in-memory mock
\* backend as with a Redis backend.
C24_GetItemsWithinMaxItems ==
  \A p \in Readers : Len(loc[p].items) <= loc[p].cfg.maxItems

\* C30: the in-memory mock backend provides every operation the cache
\* manager calls, so that with it a feed GET on an empty cache is answered
\* 200 and an item-add of a valid item is answered with success.
C30_MockBackendServes ==
  /\ \A p \in Readers :
       (loc[p].kind = "feed" /\ Answered(p) /\ pc[p] # "idle") =>
         resp[p].status = 200
  /\ \A w \in Writers :
       (loc[w].kind = "add" /\ loc[w].body = "ok" /\ pc[w] = "done") =>
         resp[w].status = 200

\* C25: every cached content key that exists once the cacheFeed that wrote it
\* has returned or failed carries an expiry.
C25_ContentKeyCarriesExpiry ==
  \A f \in Formats :
    LET k == CacheKey(f)
    IN  (/\ redis[k] # Nil
         /\ hBy[k] # NoProc
         /\ ~(pc[hBy[k]] \in CacheFeedPcs /\ loc[hBy[k]].fmt = f)) =>
          ttl[k] > 0

\* C26: no request waits on another.  A request that has begun and is not
\* yet answered always has a step of its own to take, whatever the other
\* requests are doing, and every request that has begun is answered.
InProgress(p) == pc[p] \notin {"idle", "done", "cf_failed"}
C26_NoRequestWaits ==
  /\ [](\A p \in ConcurrentReaders \cup OneWriter :
          InProgress(p) => ENABLED RequestStep(p))
  /\ \A p \in ConcurrentReaders \cup OneWriter :
       InProgress(p) ~> (pc[p] = "done" /\ resp[p].status # 0)

\* Two misses for the same format have both rendered and are both inside
\* cacheFeed, one of them behind the other's first write.
C26_Witness ==
  \E p, q \in ConcurrentReaders :
    /\ p # q /\ loc[p].fmt = loc[q].fmt
    /\ pc[p] = "cf_set_content" /\ pc[q] = "cf_expire_content"
    /\ \E w \in OneWriter : pc[w] = "inv"

\* C27: invalidateCache changes only the eight cache keys.  Each of its steps,
\* completed or failed, deletes at most the one cache key it is at and leaves
\* every other cache key, the item list, the persisted config record and the
\* configuration in memory as they were.
C27_InvalidationTouchesCacheOnly ==
  [][\A w \in Writers :
       (pc[w] = "inv" /\ (Steps(w) \/ loc'[w] # loc[w])) =>
         /\ UNCHANGED <<itemsList, feedRecord, currentConfig>>
         /\ \A k \in CacheKeys :
              redis'[k] # redis[k] =>
                /\ k = InvalidateKeySeq[loc[w].idx]
                /\ redis'[k] = Nil]_vars

\* An item-add answered with success: its invalidateCache deleted the eight
\* keys, one of which held a rendering, and the item it pushed is in the list.
C27_Witness ==
  \E w \in Writers :
    /\ pc[w] = "done" /\ loc[w].kind = "add" /\ resp[w].status = 200
    /\ loc[w].deleted = CacheKeys /\ Cardinality(CacheKeys) = 8
    /\ Contains(itemsList, w)
    /\ \E p \in Readers : Stored(p) /\ redis[CacheKey(loc[p].fmt)] = Nil

\* C28: after any setFeedConfig calls, the effective configuration has the
\* default feed id and a maxItems that is a positive integer.
C28_EffectiveConfigWellFormed ==
  /\ getFeedConfig.id = DEFAULT_FEED_ID
  /\ getFeedConfig.maxItems > 0
  /\ getFeedConfig.maxItemsHalf = 0

\* C29: a write of saveFeedConfig to the existing record feed:main changes
\* its feedConfig only: every other key of the record is kept.
C29_SaveKeepsOtherKeys ==
  [][(feedRecord.exists /\ feedRecord' # feedRecord) =>
       /\ feedRecord'.exists
       /\ feedRecord'.other = feedRecord.other]_vars

\* C31: two 200 responses for the same format that carry the same ETag carry
\* the same body, and a 304 carries an ETag only if the cached content it was
\* answered from is the body served with that ETag.
C31_EtagBodyConsistency ==
  \A p, q \in Readers :
    (/\ loc[p].kind = "feed" /\ loc[q].kind = "feed" /\ loc[p].fmt = loc[q].fmt
     /\ resp[q].status = 200 /\ resp[p].etag = resp[q].etag) =>
      /\ resp[p].status = 200 => resp[p].body = resp[q].body
      /\ resp[p].status = 304 => loc[p].content = resp[q].body

\* C32: an item-add answered 500 'Storage Error' has left its item out of
\* the item list.
C32_StorageErrorMeansNotStored ==
  \A w \in Writers :
    (/\ loc[w].kind = "add" /\ pc[w] = "done"
     /\ resp[w].status = 500 /\ resp[w].error = "Storage Error") =>
      ~Contains(itemsList, w)

\* C33: once the concurrent config updates have all been answered with
\* success, the persisted feedConfig is the configuration in memory and each
\* response carries the configuration its own request submitted.
C33_ConfigUpdatesAgree ==
  (\A w \in TwoWriters :
     pc[w] = "done" /\ loc[w].kind = "config" /\ resp[w].status = 200) =>
    /\ feedRecord.feedConfig = getFeedConfig
    /\ \A w \in TwoWriters : resp[w].config = <<loc[w].cfg>>

\* C34: a config update answered 500 'Configuration Error' because the
\* configuration could not be persisted leaves the configuration in memory
\* as the one still persisted.
C34_FailedSaveKeepsConfig ==
  \A w \in OneWriter :
    (/\ loc[w].kind = "config" /\ pc[w] = "done"
     /\ resp[w].status = 500 /\ resp[w].error = "Configuration Error"
     /\ feedRecord.feedConfig # loc[w].cfg) =>
      getFeedConfig = feedRecord.feedConfig

\* C35: since the counter key of an IP was created, at most RATE_LIMIT_MAX of
\* its GET requests have been passed on to the downstream handler, over all
\* instances; a request that is not a GET is never rejected.
C35_RateLimitAcrossInstances ==
  /\ rl.passed <= RATE_LIMIT_MAX
  /\ \A i \in Instances :
       (req[i].pc = "done" /\ req[i].method # "GET") =>
         req[i].status = 200 /\ req[i].nexts = 1

\* C36: when no limiter call is in flight, a counter key that exists carries
\* an expiry, also after a failed expire call.
C36_CounterCarriesExpiry ==
  (\A i \in OneInstance : req[i].pc \in {"idle", "done"}) =>
    (rl.count >= 1 => rl.armed)

\* C37: a GET during which a Redis command of the limiter failed is passed
\* to the downstream handler exactly once and is not answered 429.
C37_FailsOpen ==
  \A i \in OneInstance :
    (req[i].pc = "done" /\ req[i].failed) =>
      req[i].nexts = 1 /\ req[i].status # 429

\* The expire call of a GET that had incremented the counter failed, and
\* the request was passed on.
C37_Witness ==
  \E i \in OneInstance :
    /\ req[i].pc = "done" /\ req[i].failed /\ req[i].method = "GET"
    /\ req[i].requests >= 1 /\ req[i].status = 200 /\ req[i].nexts = 1

\* C38: a request whose handler had not completed when the timer fired is
\* answered 408, and no other request is.
C38_TimeoutAnswered408 ==
  \A i \in Instances :
    req[i].pc = "done" =>
      (req[i].timer = "fired" <=> req[i].status = 408)

====
